---- MODULE Spec2Model ----
(***************************************************************************)
(* Model of akahu-client's New Zealand bank account number type            *)
(* (src/src/bank_account_number.rs): the BankPrefix registry and the       *)
(* BankAccountNumber constructor, serde path and accessors; of the         *)
(* prefix-checked resource identifiers of src/src/types.rs (newtype_id!);  *)
(* of build_url (src/src/http/util.rs); and of the response handling and   *)
(* the app-scoped headers of AkahuClient (src/src/client/core.rs, mod.rs). *)
(*                                                                         *)
(* A Rust String is modelled as the sequence of its UTF-8 bytes, each byte *)
(* written as a one-element name: "0".."9", "-", "+", "A", and the two     *)
(* bytes "C3" "A9" of the two-byte character U+00E9.  str::len and         *)
(* str::get count bytes, as in Rust.                                       *)
(***************************************************************************)
EXTENDS Integers, Sequences, FiniteSets, TLC

\* ------------------------------------------------------------------------
\* Result / Option values
\* ------------------------------------------------------------------------
Ok(v) == [tag |-> "Ok", v |-> v]
Err(v) == [tag |-> "Err", v |-> v]
Some(v) == [tag |-> "Some", v |-> v]
None == [tag |-> "None", v |-> <<>>]
Ret(v) == [tag |-> "Ret", v |-> v]
Panic == [tag |-> "Panic", v |-> <<>>]

\* ------------------------------------------------------------------------
\* std string primitives the module uses
\* ------------------------------------------------------------------------
DigitChars == <<"0", "1", "2", "3", "4", "5", "6", "7", "8", "9">>

\* char::is_ascii_digit
IsAsciiDigit(c) == \E i \in 1..10 : DigitChars[i] = c

DigitVal(c) == (CHOOSE i \in 1..10 : DigitChars[i] = c) - 1

\* s.chars().all(|c| c.is_ascii_digit()); a byte of a multi-byte character
\* is never an ASCII digit, so the test over bytes equals the test over chars
AllAsciiDigits(s) == \A i \in 1..Len(s) : IsAsciiDigit(s[i])

\* a UTF-8 continuation byte (never the start of a character)
IsContinuation(b) == b = "A9"

\* str::is_char_boundary
IsCharBoundary(s, i) ==
    \/ i = 0
    \/ i = Len(s)
    \/ (i < Len(s) /\ ~IsContinuation(s[i + 1]))

\* str::get(a..b): None when out of range or not on character boundaries
StrGet(s, a, b) ==
    IF a <= b /\ b <= Len(s) /\ IsCharBoundary(s, a) /\ IsCharBoundary(s, b)
    THEN Some(SubSeq(s, a + 1, b))
    ELSE None

\* str::contains(ch)
Contains(s, ch) == \E i \in 1..Len(s) : s[i] = ch

\* str::split(ch).collect(): the segments between separators, empty ones kept
RECURSIVE SplitFrom(_, _, _)
SplitFrom(s, ch, cur) ==
    IF s = <<>> THEN <<cur>>
    ELSE IF Head(s) = ch THEN <<cur>> \o SplitFrom(Tail(s), ch, <<>>)
    ELSE SplitFrom(Tail(s), ch, Append(cur, Head(s)))

Split(s, ch) == SplitFrom(s, ch, <<>>)

\* str::trim_start_matches(ch)
RECURSIVE TrimStartMatches(_, _)
TrimStartMatches(s, ch) ==
    IF s # <<>> /\ Head(s) = ch THEN TrimStartMatches(Tail(s), ch) ELSE s

\* the digit loop of str::parse::<u8>: checked multiply-and-add, Err on a
\* non-digit and on a value above u8::MAX
U8Max == 255

\* the digit loop with wrapping arithmetic in place of the checked one
RECURSIVE ParseDigits_wrapping(_, _)
ParseDigits_wrapping(s, acc) ==
    IF s = <<>> THEN [tag |-> "Ok", v |-> acc]
    ELSE IF ~IsAsciiDigit(Head(s)) THEN [tag |-> "Err", v |-> "InvalidDigit"]
    ELSE ParseDigits_wrapping(Tail(s),
                              (acc * 10 + DigitVal(Head(s))) % (U8Max + 1))

RECURSIVE ParseDigits(_, _)
ParseDigits(s, acc) ==
    IF s = <<>> THEN Ok(acc)
    ELSE IF ~IsAsciiDigit(Head(s)) THEN Err("InvalidDigit")
    ELSE IF acc * 10 + DigitVal(Head(s)) > U8Max THEN Err("PosOverflow")
    ELSE ParseDigits(Tail(s), acc * 10 + DigitVal(Head(s)))

\* str::parse::<u8>: empty is an error, a lone sign is an error, one leading
\* "+" is accepted for an unsigned type, "-" is an invalid digit
ParseU8(s) ==
    IF s = <<>> THEN Err("Empty")
    ELSE IF Len(s) = 1 /\ Head(s) \in {"+", "-"} THEN Err("InvalidDigit")
    ELSE IF Head(s) = "+" THEN ParseDigits(Tail(s), 0)
    ELSE ParseDigits(s, 0)

\* ------------------------------------------------------------------------
\* BankPrefix: the registry
\* ------------------------------------------------------------------------
\* enum BankPrefix with its repr(u8) discriminants
BankPrefix ==
    [Anz |-> 1, Bnz |-> 2, Westpac |-> 3, AnzWise |-> 4,
     ChinaConstruction |-> 5, AnzNational |-> 6, Nab |-> 8, Icbc |-> 10,
     AnzPostBank |-> 11, Asb |-> 12, WestpacTrust |-> 13,
     WestpacOtago |-> 14, Tsb |-> 15, WestpacSouthland |-> 16,
     WestpacBop |-> 17, WestpacCanterbury |-> 18, WestpacWaikato |-> 19,
     WestpacWellington |-> 20, WestpacWestland |-> 21,
     WestpacSouthCant |-> 22, WestpacAuckland |-> 23, AsbPartner |-> 24,
     AnzPartner |-> 25, Hsbc |-> 30, Citibank |-> 31, Kiwibank |-> 38,
     BankOfChina |-> 88]

BankPrefixVariants == DOMAIN BankPrefix

\* as_str giving the decimal of the discriminant without padding
BankPrefix_as_str_unpadded(p) ==
    IF BankPrefix[p] < 10 THEN <<DigitChars[BankPrefix[p] + 1]>>
    ELSE <<DigitChars[(BankPrefix[p] \div 10) + 1],
           DigitChars[(BankPrefix[p] % 10) + 1]>>

\* BankPrefix::as_str
BankPrefix_as_str(p) ==
    CASE p = "Anz" -> <<"0", "1">>
      [] p = "Bnz" -> <<"0", "2">>
      [] p = "Westpac" -> <<"0", "3">>
      [] p = "AnzWise" -> <<"0", "4">>
      [] p = "ChinaConstruction" -> <<"0", "5">>
      [] p = "AnzNational" -> <<"0", "6">>
      [] p = "Nab" -> <<"0", "8">>
      [] p = "Icbc" -> <<"1", "0">>
      [] p = "AnzPostBank" -> <<"1", "1">>
      [] p = "Asb" -> <<"1", "2">>
      [] p = "WestpacTrust" -> <<"1", "3">>
      [] p = "WestpacOtago" -> <<"1", "4">>
      [] p = "Tsb" -> <<"1", "5">>
      [] p = "WestpacSouthland" -> <<"1", "6">>
      [] p = "WestpacBop" -> <<"1", "7">>
      [] p = "WestpacCanterbury" -> <<"1", "8">>
      [] p = "WestpacWaikato" -> <<"1", "9">>
      [] p = "WestpacWellington" -> <<"2", "0">>
      [] p = "WestpacWestland" -> <<"2", "1">>
      [] p = "WestpacSouthCant" -> <<"2", "2">>
      [] p = "WestpacAuckland" -> <<"2", "3">>
      [] p = "AsbPartner" -> <<"2", "4">>
      [] p = "AnzPartner" -> <<"2", "5">>
      [] p = "Hsbc" -> <<"3", "0">>
      [] p = "Citibank" -> <<"3", "1">>
      [] p = "Kiwibank" -> <<"3", "8">>
      [] p = "BankOfChina" -> <<"8", "8">>

\* BankPrefix::bank_name
BankPrefix_bank_name(p) ==
    CASE p \in {"Anz", "AnzNational", "AnzPostBank", "AnzWise", "AnzPartner"}
           -> "ANZ"
      [] p \in {"Bnz", "Nab"} -> "Bank of New Zealand"
      [] p \in {"Westpac", "WestpacTrust", "WestpacOtago", "WestpacSouthland",
                "WestpacBop", "WestpacCanterbury", "WestpacWaikato",
                "WestpacWellington", "WestpacWestland", "WestpacSouthCant",
                "WestpacAuckland"} -> "Westpac"
      [] p \in {"Asb", "AsbPartner"} -> "ASB"
      [] p = "Kiwibank" -> "Kiwibank"
      [] p = "Tsb" -> "TSB"
      [] p = "ChinaConstruction" -> "China Construction Bank"
      [] p = "Icbc" -> "ICBC"
      [] p = "Hsbc" -> "HSBC"
      [] p = "Citibank" -> "Citibank"
      [] p = "BankOfChina" -> "Bank of China"

\* try_from with the arm of Nab written 9 instead of 8
BankPrefix_try_from_nab9(value) ==
    IF value = 9 THEN Ok("Nab")
    ELSE IF value # 8 /\ \E p \in BankPrefixVariants : BankPrefix[p] = value
         THEN Ok(CHOOSE p \in BankPrefixVariants : BankPrefix[p] = value)
         ELSE Err("()")

\* impl TryFrom<u8> for BankPrefix
BankPrefix_try_from(value) ==
    CASE value = 1 -> Ok("Anz")
      [] value = 2 -> Ok("Bnz")
      [] value = 3 -> Ok("Westpac")
      [] value = 4 -> Ok("AnzWise")
      [] value = 5 -> Ok("ChinaConstruction")
      [] value = 6 -> Ok("AnzNational")
      [] value = 8 -> Ok("Nab")
      [] value = 10 -> Ok("Icbc")
      [] value = 11 -> Ok("AnzPostBank")
      [] value = 12 -> Ok("Asb")
      [] value = 13 -> Ok("WestpacTrust")
      [] value = 14 -> Ok("WestpacOtago")
      [] value = 15 -> Ok("Tsb")
      [] value = 16 -> Ok("WestpacSouthland")
      [] value = 17 -> Ok("WestpacBop")
      [] value = 18 -> Ok("WestpacCanterbury")
      [] value = 19 -> Ok("WestpacWaikato")
      [] value = 20 -> Ok("WestpacWellington")
      [] value = 21 -> Ok("WestpacWestland")
      [] value = 22 -> Ok("WestpacSouthCant")
      [] value = 23 -> Ok("WestpacAuckland")
      [] value = 24 -> Ok("AsbPartner")
      [] value = 25 -> Ok("AnzPartner")
      [] value = 30 -> Ok("Hsbc")
      [] value = 31 -> Ok("Citibank")
      [] value = 38 -> Ok("Kiwibank")
      [] value = 88 -> Ok("BankOfChina")
      [] OTHER -> Err("()")

\* str::trim_end_matches(ch)
RECURSIVE TrimEndMatches(_, _)
TrimEndMatches(s, ch) ==
    IF s # <<>> /\ s[Len(s)] = ch
    THEN TrimEndMatches(SubSeq(s, 1, Len(s) - 1), ch)
    ELSE s

\* from_str trimming the zeros at the end instead of those at the start
BankPrefix_from_str_trim_end(s) ==
    LET numeric_part == TrimEndMatches(s, "0")
    IN  IF numeric_part = <<>> THEN Err("()")
        ELSE LET val == ParseU8(numeric_part)
             IN  IF val.tag = "Err" THEN Err("()")
                 ELSE BankPrefix_try_from(val.v)

\* impl FromStr for BankPrefix
BankPrefix_from_str(s) ==
    LET numeric_part == TrimStartMatches(s, "0")
    IN  IF numeric_part = <<>> THEN Err("()")
        ELSE LET val == ParseU8(numeric_part)
             IN  IF val.tag = "Err" THEN Err("()")
                 ELSE BankPrefix_try_from(val.v)

\* ------------------------------------------------------------------------
\* BankAccountNumber
\* ------------------------------------------------------------------------
\* validate_parts with the account width off by one
validate_parts_narrow(parts) ==
    IF Len(parts) # 4 THEN FALSE
    ELSE IF BankPrefix_from_str(parts[1]).tag = "Err" THEN FALSE
    ELSE IF Len(parts[2]) # 4 \/ Len(parts[3]) # 6 \/ Len(parts[4]) # 3
         THEN FALSE
    ELSE IF ~(\A i \in 1..Len(parts) : AllAsciiDigits(parts[i])) THEN FALSE
    ELSE TRUE

\* validate_parts without the registry lookup of the bank code
validate_parts_any_bank(parts) ==
    IF Len(parts) # 4 THEN FALSE
    ELSE IF Len(parts[2]) # 4 \/ Len(parts[3]) # 7 \/ Len(parts[4]) # 3
         THEN FALSE
    ELSE IF ~(\A i \in 1..Len(parts) : AllAsciiDigits(parts[i])) THEN FALSE
    ELSE TRUE

\* validate_parts that only refuses fewer than four parts
validate_parts_at_least_four(parts) ==
    IF Len(parts) < 4 THEN FALSE
    ELSE IF BankPrefix_from_str(parts[1]).tag = "Err" THEN FALSE
    ELSE IF Len(parts[2]) # 4 \/ Len(parts[3]) # 7 \/ Len(parts[4]) # 3
         THEN FALSE
    ELSE IF ~(\A i \in 1..Len(parts) : AllAsciiDigits(parts[i])) THEN FALSE
    ELSE TRUE

\* validate_parts without the test that every part is made of digits
validate_parts_any_char(parts) ==
    IF Len(parts) # 4 THEN FALSE
    ELSE IF BankPrefix_from_str(parts[1]).tag = "Err" THEN FALSE
    ELSE IF Len(parts[2]) # 4 \/ Len(parts[3]) # 7 \/ Len(parts[4]) # 3
         THEN FALSE
    ELSE TRUE

\* the closure validate_parts inside BankAccountNumber::new; TRUE is Ok(())
validate_parts(parts) ==
    IF Len(parts) # 4 THEN FALSE
    ELSE LET bank_code == parts[1]
             branch == parts[2]
             account == parts[3]
             suffix == parts[4]
         IN  IF BankPrefix_from_str(bank_code).tag = "Err" THEN FALSE
             ELSE IF Len(branch) # 4 \/ Len(account) # 7 \/ Len(suffix) # 3
                  THEN FALSE
             ELSE IF ~(\A i \in 1..Len(parts) : AllAsciiDigits(parts[i]))
                  THEN FALSE
             ELSE TRUE

\* the format string without its separators
Format4_unseparated(a, b, c, d) == a \o b \o c \o d

\* format!("{}-{}-{}-{}", bank_code, branch, account, suffix)
Format4(a, b, c, d) == a \o <<"-">> \o b \o <<"-">> \o c \o <<"-">> \o d

\* new whose error for a hyphenated input carries the input up to its first
\* separator only
BankAccountNumber_new_err_head(s) ==
    IF Contains(s, "-")
    THEN LET parts == Split(s, "-")
         IN  IF ~validate_parts(parts) THEN Err(parts[1]) ELSE Ok(s)
    ELSE IF Len(s) # 16 \/ ~AllAsciiDigits(s) THEN Err(s)
         ELSE IF ~validate_parts(<<SubSeq(s, 1, 2), SubSeq(s, 3, 6),
                                   SubSeq(s, 7, 13), SubSeq(s, 14, 16)>>)
              THEN Err(s)
              ELSE Ok(Format4(SubSeq(s, 1, 2), SubSeq(s, 3, 6),
                              SubSeq(s, 7, 13), SubSeq(s, 14, 16)))

\* new storing a hyphenated input as its segments joined without separators
BankAccountNumber_new_unseparated(s) ==
    IF Contains(s, "-")
    THEN LET parts == Split(s, "-")
         IN  IF ~validate_parts(parts) THEN Err(s)
             ELSE Ok(parts[1] \o parts[2] \o parts[3] \o parts[4])
    ELSE IF Len(s) # 16 \/ ~AllAsciiDigits(s) THEN Err(s)
         ELSE IF ~validate_parts(<<SubSeq(s, 1, 2), SubSeq(s, 3, 6),
                                   SubSeq(s, 7, 13), SubSeq(s, 14, 16)>>)
              THEN Err(s)
              ELSE Ok(Format4(SubSeq(s, 1, 2), SubSeq(s, 3, 6),
                              SubSeq(s, 7, 13), SubSeq(s, 14, 16)))

\* BankAccountNumber::new: Ok(stored string) or Err(InvalidBankAccountError)
BankAccountNumber_new(s) ==
    IF Contains(s, "-")
    THEN LET parts == Split(s, "-")
         IN  IF ~validate_parts(parts) THEN Err(s) ELSE Ok(s)
    ELSE IF Len(s) # 16 \/ ~AllAsciiDigits(s) THEN Err(s)
         ELSE LET bank_code == StrGet(s, 0, 2)
                  branch == StrGet(s, 2, 6)
                  account == StrGet(s, 6, 13)
                  suffix == StrGet(s, 13, 16)
              IN  IF \/ bank_code.tag = "None" \/ branch.tag = "None"
                     \/ account.tag = "None" \/ suffix.tag = "None"
                  THEN Err(s)
                  ELSE IF ~validate_parts(<<bank_code.v, branch.v,
                                            account.v, suffix.v>>)
                       THEN Err(s)
                       ELSE Ok(Format4(bank_code.v, branch.v,
                                       account.v, suffix.v))

\* #[derive(Deserialize)] #[serde(transparent)]: a JSON string becomes the
\* wrapped String as it is
BankAccountNumber_deserialize(s) == Ok(s)

\* serialization that writes the digits only
BankAccountNumber_serialize_digits(self) ==
    SelectSeq(self, LAMBDA c : c # "-")

\* #[derive(Serialize)] #[serde(transparent)]: the wrapped String is handed
\* to the serializer as a string
BankAccountNumber_serialize(self) == self

\* equality that looks at the bank code only
BankAccountNumber_eq_bank_only(a, b) ==
    SubSeq(a, 1, 2) = SubSeq(b, 1, 2)

\* #[derive(PartialEq, Eq)]: equality of the wrapped Strings
BankAccountNumber_eq(a, b) == a = b

\* #[derive(Hash)]: what the value feeds to the Hasher, the bytes of the
\* String and the terminator str::hash writes after them
BankAccountNumber_hash(self) == self \o <<"FF">>

\* Option::expect
Expect(o) == IF o.tag = "Some" THEN Ret(o.v) ELSE Panic

\* BankAccountNumber::bank_code
bank_code(self) == Expect(StrGet(self, 0, 2))

\* BankAccountNumber::branch_code
branch_code(self) == Expect(StrGet(self, 3, 7))

\* account_number reading one byte early
account_number_shifted(self) == Expect(StrGet(self, 7, 14))

\* BankAccountNumber::account_number
account_number(self) == Expect(StrGet(self, 8, 15))

\* BankAccountNumber::suffix
suffix(self) == Expect(StrGet(self, 16, 19))

\* BankAccountNumber::prefix
prefix(self) ==
    LET code == bank_code(self)
    IN  IF code.tag = "Panic" THEN Panic
        ELSE LET r == BankPrefix_from_str(code.v)
             IN  IF r.tag = "Ok" THEN Ret(r.v) ELSE Panic

\* BankAccountNumber::as_str, Display::fmt
as_str(self) == self

to_string(self) == self

\* FromStr / TryFrom<String> / TryFrom<&str> for BankAccountNumber
BankAccountNumber_from_str(s) == BankAccountNumber_new(s)

BankAccountNumber_try_from_string(value) == BankAccountNumber_new(value)

BankAccountNumber_try_from_str(value) == BankAccountNumber_new(value)

\* ------------------------------------------------------------------------
\* Resource identifiers (macro newtype_id!)
\* ------------------------------------------------------------------------
\* the nine instantiations of newtype_id!
IdKinds ==
    {"AccountId", "TransactionId", "UserId", "TransferId", "PaymentId",
     "ConnectionId", "CategoryId", "MerchantId", "AuthorizationId"}

\* the prefixes with that of TransactionId written without its underscore
PREFIX_trans_short(kind) ==
    CASE kind = "AccountId" -> <<"a", "c", "c", "_">>
      [] kind = "TransactionId" -> <<"t", "r", "a", "n", "s">>
      [] kind = "UserId" -> <<"u", "s", "e", "r", "_">>
      [] kind = "TransferId" -> <<"t", "r", "a", "n", "s", "f", "e", "r", "_">>
      [] kind = "PaymentId" -> <<"p", "a", "y", "m", "e", "n", "t", "_">>
      [] kind = "ConnectionId" -> <<"c", "o", "n", "n", "_">>
      [] kind = "CategoryId" -> <<"c", "a", "t", "_">>
      [] kind = "MerchantId" -> <<"_", "m", "e", "r", "c", "h", "a", "n", "t">>
      [] kind = "AuthorizationId" -> <<"a", "u", "t", "h", "_">>

\* Self::PREFIX of each instantiation
PREFIX(kind) ==
    CASE kind = "AccountId" -> <<"a", "c", "c", "_">>
      [] kind = "TransactionId" -> <<"t", "r", "a", "n", "s", "_">>
      [] kind = "UserId" -> <<"u", "s", "e", "r", "_">>
      [] kind = "TransferId" -> <<"t", "r", "a", "n", "s", "f", "e", "r", "_">>
      [] kind = "PaymentId" -> <<"p", "a", "y", "m", "e", "n", "t", "_">>
      [] kind = "ConnectionId" -> <<"c", "o", "n", "n", "_">>
      [] kind = "CategoryId" -> <<"c", "a", "t", "_">>
      [] kind = "MerchantId" -> <<"_", "m", "e", "r", "c", "h", "a", "n", "t">>
      [] kind = "AuthorizationId" -> <<"a", "u", "t", "h", "_">>

\* stringify!($name)
TypeName(kind) == kind

\* starts_with comparing only as many bytes as the shorter text has
StartsWith_common(s, p) ==
    \A i \in 1..(IF Len(s) < Len(p) THEN Len(s) ELSE Len(p)) : s[i] = p[i]

\* str::starts_with
StartsWith(s, p) == Len(s) >= Len(p) /\ SubSeq(s, 1, Len(p)) = p

\* struct InvalidIdError
InvalidIdError(type_name, expected_prefix, actual_value) ==
    [type_name |-> type_name, expected_prefix |-> expected_prefix,
     actual_value |-> actual_value]

\* new reporting the prefix where the offending value belongs
Id_new_err_prefix(kind, s) ==
    IF ~StartsWith(s, PREFIX(kind))
    THEN Err(InvalidIdError(TypeName(kind), PREFIX(kind), PREFIX(kind)))
    ELSE Ok(s)

\* $name::new
Id_new(kind, s) ==
    IF ~StartsWith(s, PREFIX(kind))
    THEN Err(InvalidIdError(TypeName(kind), PREFIX(kind), s))
    ELSE Ok(s)

\* $name::new_unchecked
Id_new_unchecked(kind, value) == value

\* deserialization that validates through new
Id_deserialize_validating(kind, s) == Id_new(kind, s)

\* impl Deserialize for $name, given a JSON string
Id_deserialize(kind, s) == Ok(Id_new_unchecked(kind, s))

\* impl Serialize for $name: serializer.serialize_str(&self.0)
Id_serialize(self) == self

\* #[derive(PartialEq, Eq)] on $name
Id_eq(a, b) == a = b

\* $name::as_str
Id_as_str(self) == self

\* $name::into_inner
Id_into_inner(self) == self

\* impl Display for $name
Id_to_string(self) == self

\* ------------------------------------------------------------------------
\* build_url (src/src/http/util.rs)
\* ------------------------------------------------------------------------
\* the value of each byte that occurs in the texts given to build_url and
\* in the tokens of the client
ByteValue(c) ==
    CASE c = " " -> 32
      [] c = "%" -> 37
      [] c = "&" -> 38
      [] c = "+" -> 43
      [] c = "-" -> 45
      [] c = "/" -> 47
      [] c = "0" -> 48
      [] c = "3" -> 51
      [] c = ":" -> 58
      [] c = "=" -> 61
      [] c = "?" -> 63
      [] c = "a" -> 97
      [] c = "b" -> 98
      [] c = "e" -> 101
      [] c = "g" -> 103
      [] c = "q" -> 113
      [] c = "u" -> 117
      [] c = "x" -> 120
      [] c = "C3" -> 195
      [] c = "A9" -> 169

HexDigits ==
    <<"0", "1", "2", "3", "4", "5", "6", "7", "8", "9",
      "A", "B", "C", "D", "E", "F">>

\* the bytes urlencoding::encode leaves as they are: ASCII letters and
\* digits, '-', '_', '.' and '~'
IsUnreserved(c) ==
    LET b == ByteValue(c)
    IN  \/ (48 <= b /\ b <= 57)
        \/ (65 <= b /\ b <= 90)
        \/ (97 <= b /\ b <= 122)
        \/ b \in {45, 95, 46, 126}

\* urlencoding::encode: every other byte becomes '%' and two upper-case
\* hexadecimal digits
RECURSIVE UrlEncode(_)
UrlEncode(v) ==
    IF v = <<>> THEN <<>>
    ELSE (IF IsUnreserved(Head(v)) THEN <<Head(v)>>
          ELSE <<"%", HexDigits[(ByteValue(Head(v)) \div 16) + 1],
                 HexDigits[(ByteValue(Head(v)) % 16) + 1]>>)
         \o UrlEncode(Tail(v))

\* [String]::join(sep)
RECURSIVE JoinWith(_, _)
JoinWith(items, sep) ==
    IF items = <<>> THEN <<>>
    ELSE IF Len(items) = 1 THEN items[1]
    ELSE items[1] \o sep \o JoinWith(Tail(items), sep)

\* build_url that writes the values as they are
build_url_raw_values(base, path, params) ==
    IF params = <<>> THEN base \o <<"/">> \o path
    ELSE base \o <<"/">> \o path \o <<"?">>
         \o JoinWith([i \in 1..Len(params) |->
                         params[i][1] \o <<"=">> \o params[i][2]], <<"&">>)

\* build_url
build_url(base, path, params) ==
    LET url0 == base \o <<"/">> \o path
    IN  IF params # <<>>
        THEN LET query == [i \in 1..Len(params) |->
                             params[i][1] \o <<"=">> \o UrlEncode(params[i][2])]
             IN  (url0 \o <<"?">>) \o JoinWith(query, <<"&">>)
        ELSE url0

\* ------------------------------------------------------------------------
\* AkahuError and the response handling of AkahuClient (client/core.rs)
\* ------------------------------------------------------------------------
\* the variants of AkahuError the response handling builds
BadRequest(message, status) ==
    [variant |-> "BadRequest", message |-> message, status |-> status]

Unauthorized(message) == [variant |-> "Unauthorized", message |-> message]

Forbidden(message) == [variant |-> "Forbidden", message |-> message]

NotFound(message) == [variant |-> "NotFound", message |-> message]

RateLimited(message) == [variant |-> "RateLimited", message |-> message]

InternalServerError(message) ==
    [variant |-> "InternalServerError", message |-> message]

ApiError(status, message) ==
    [variant |-> "ApiError", status |-> status, message |-> message]

\* Network(#[from] reqwest::Error), what the ? operator turns a failed send
\* or a failed read of the body into
Network == [variant |-> "Network"]

JsonDeserialization(source_string) ==
    [variant |-> "JsonDeserialization", source_string |-> source_string]

MissingAppSecret == [variant |-> "MissingAppSecret"]

InvalidHeaderValue == [variant |-> "InvalidHeaderValue"]

\* StatusCode::is_success
is_success(status) == 200 <= status /\ status < 300

\* the statuses for which StatusCode::canonical_reason is Some
ReasonedStatuses ==
    (100..102) \cup (200..208) \cup {226} \cup (300..305) \cup {307, 308}
    \cup (400..418) \cup (421..424) \cup {426, 428, 429, 431, 451}
    \cup (500..508) \cup {510, 511}

\* the message of an error: taken from the body when it is an ErrorResponse
\* that could be read, and otherwise the reason phrase of the status or
\* "Unknown error"
ErrorMessage(status, read, body) ==
    IF read = "ok" /\ body.asError
    THEN [from |-> "error_body.message", text |-> body.message]
    ELSE IF status \in ReasonedStatuses
         THEN [from |-> "canonical_reason", text |-> "reason phrase"]
         ELSE [from |-> "unwrap_or", text |-> "Unknown error"]

\* handle_error_response with the arm of 403 giving Unauthorized
handle_error_response_403_as_401(status, read, body) ==
    LET message == ErrorMessage(status, read, body)
    IN  Err(CASE status = 400 -> BadRequest(message, 400)
              [] status = 401 -> Unauthorized(message)
              [] status = 403 -> Unauthorized(message)
              [] status = 404 -> NotFound(message)
              [] status = 429 -> RateLimited(message)
              [] status = 500 -> InternalServerError(message)
              [] OTHER -> ApiError(status, message))

\* AkahuClient::handle_error_response
handle_error_response(status, read, body) ==
    LET message == ErrorMessage(status, read, body)
    IN  Err(CASE status = 400 -> BadRequest(message, 400)
              [] status = 401 -> Unauthorized(message)
              [] status = 403 -> Forbidden(message)
              [] status = 404 -> NotFound(message)
              [] status = 429 -> RateLimited(message)
              [] status = 500 -> InternalServerError(message)
              [] OTHER -> ApiError(status, message))

\* AkahuClient::execute_request: the branch taken and the result.  send and
\* read say whether the transport delivered the response head and the body
execute_request(send, status, read, body) ==
    IF send = "fails" THEN [path |-> "none", out |-> Err(Network)]
    ELSE IF is_success(status)
         THEN [path |-> "deserialize",
               out |-> IF read = "fails" THEN Err(Network)
                       ELSE IF body.asT THEN Ok([deserialized |-> body.text])
                       ELSE Err(JsonDeserialization(Some(body.text)))]
         ELSE [path |-> "handle_error_response",
               out |-> handle_error_response(status, read, body)]

\* ------------------------------------------------------------------------
\* AkahuClient: construction and the headers of app-scoped requests
\* ------------------------------------------------------------------------
DEFAULT_BASE_URL ==
    <<"h", "t", "t", "p", "s", ":", "/", "/", "a", "p", "i", ".", "a", "k",
      "a", "h", "u", ".", "i", "o", "/", "v", "1">>

\* AkahuClient::new
AkahuClient_new(client, app_id_token, base_url) ==
    [st |-> "built",
     client |-> client,
     app_id_token |-> app_id_token,
     app_secret |-> None,
     base_url |-> IF base_url.tag = "Some" THEN base_url.v
                  ELSE DEFAULT_BASE_URL]

\* AkahuClient::with_app_secret
with_app_secret(self, app_secret) ==
    [self EXCEPT !.app_secret = Some(app_secret)]

\* the alphabet of base64::engine::general_purpose::STANDARD
Base64Alphabet ==
    <<"A", "B", "C", "D", "E", "F", "G", "H", "I", "J", "K", "L", "M",
      "N", "O", "P", "Q", "R", "S", "T", "U", "V", "W", "X", "Y", "Z",
      "a", "b", "c", "d", "e", "f", "g", "h", "i", "j", "k", "l", "m",
      "n", "o", "p", "q", "r", "s", "t", "u", "v", "w", "x", "y", "z",
      "0", "1", "2", "3", "4", "5", "6", "7", "8", "9", "+", "/">>

\* Engine::encode of STANDARD: three bytes give four characters, and the
\* last group is padded with "="
RECURSIVE Base64Encode(_)
Base64Encode(bytes) ==
    IF bytes = <<>> THEN <<>>
    ELSE LET b1 == ByteValue(bytes[1])
         IN  IF Len(bytes) = 1
             THEN <<Base64Alphabet[(b1 \div 4) + 1],
                    Base64Alphabet[((b1 % 4) * 16) + 1], "=", "=">>
             ELSE LET b2 == ByteValue(bytes[2])
                  IN  IF Len(bytes) = 2
                      THEN <<Base64Alphabet[(b1 \div 4) + 1],
                             Base64Alphabet[((b1 % 4) * 16) + (b2 \div 16) + 1],
                             Base64Alphabet[((b2 % 16) * 4) + 1], "=">>
                      ELSE LET b3 == ByteValue(bytes[3])
                           IN  <<Base64Alphabet[(b1 \div 4) + 1],
                                 Base64Alphabet[((b1 % 4) * 16)
                                                + (b2 \div 16) + 1],
                                 Base64Alphabet[((b2 % 16) * 4)
                                                + (b3 \div 64) + 1],
                                 Base64Alphabet[(b3 % 64) + 1]>>
                               \o Base64Encode(SubSeq(bytes, 4, Len(bytes)))

\* HeaderValue::from_str: Ok when every byte is visible ASCII (32..126) or a
\* tab; of the bytes of this model only those of the two-byte character
\* are not
HeaderValue_from_str(s) ==
    IF \A i \in 1..Len(s) : s[i] \notin {"C3", "A9"}
    THEN Ok(s) ELSE Err(InvalidHeaderValue)

Basic == <<"B", "a", "s", "i", "c", " ">>

\* build_app_headers joining the secret and the token in the wrong order
build_app_headers_swapped(self) ==
    IF self.app_secret.tag = "None" THEN Err(MissingAppSecret)
    ELSE LET credentials ==
                 self.app_secret.v \o <<":">> \o self.app_id_token
             value == HeaderValue_from_str(Basic \o Base64Encode(credentials))
         IN  IF value.tag = "Err" THEN Err(InvalidHeaderValue)
             ELSE Ok([AUTHORIZATION |-> value.v,
                      ACCEPT |-> "application/json"])

\* AkahuClient::build_app_headers
build_app_headers(self) ==
    IF self.app_secret.tag = "None" THEN Err(MissingAppSecret)
    ELSE LET app_secret == self.app_secret.v
             credentials == self.app_id_token \o <<":">> \o app_secret
             encoded == Base64Encode(credentials)
             value == HeaderValue_from_str(Basic \o encoded)
         IN  IF value.tag = "Err" THEN Err(InvalidHeaderValue)
             ELSE Ok([AUTHORIZATION |-> value.v,
                      ACCEPT |-> "application/json"])

\* ------------------------------------------------------------------------
\* Inputs offered to the constructors
\* ------------------------------------------------------------------------
\* the largest number of zeros put in front of a bank code
MaxPad == 2

\* decimal text of n without leading zeros
RECURSIVE Dec(_)
Dec(n) ==
    IF n < 10 THEN <<DigitChars[n + 1]>>
    ELSE Dec(n \div 10) \o <<DigitChars[(n % 10) + 1]>>

RECURSIVE Zeros(_)
Zeros(k) == IF k = 0 THEN <<>> ELSE <<"0">> \o Zeros(k - 1)

\* registered and unregistered codes, zero, and a value above u8::MAX
SampleCodes == {0, 1, 7, 38, 99, 257}

PaddedBankTexts == {Zeros(k) \o Dec(n) : n \in SampleCodes, k \in 0..MaxPad}

OddBankTexts == {<<"A", "B">>, <<"+", "1">>, <<>>}

f2345 == <<"2", "3", "4", "5">>
f6789012 == <<"6", "7", "8", "9", "0", "1", "2">>
f000 == <<"0", "0", "0">>
f9000 == <<"9", "0", "0", "0">>
f0000000 == <<"0", "0", "0", "0", "0", "0", "0">>
f123 == <<"1", "2", "3">>
f3456 == <<"3", "4", "5", "6">>
f7890123 == <<"7", "8", "9", "0", "1", "2", "3">>
f001 == <<"0", "0", "1">>

\* well-formed (branch, account, suffix) triples
GoodTails == {<<f2345, f6789012, f000>>, <<f9000, f0000000, f123>>,
              <<f3456, f7890123, f001>>}

\* triples with exactly one field of the wrong width or with a non-digit
BadTails ==
    {<<<<"2", "3", "4">>, f6789012, f000>>,
     <<<<"2", "3", "4", "5", "6">>, f6789012, f000>>,
     <<<<"2", "3", "A", "5">>, f6789012, f000>>,
     <<f2345, <<"6", "7", "8", "9", "0", "1">>, f000>>,
     <<f2345, <<"6", "7", "8", "9", "0", "1", "2", "3">>, f000>>,
     <<f2345, <<"6", "7", "A", "9", "0", "1", "2">>, f000>>,
     <<f2345, f6789012, <<"0", "0">>>>,
     <<f2345, f6789012, <<"0", "0", "0", "0">>>>,
     <<f2345, f6789012, <<"0", "A", "0">>>>,
     <<f2345, f6789012, <<"C3", "A9", "0">>>>}

GoodBankTexts == {<<"0", "1">>, <<"1", "2">>, <<"3", "8">>}

\* <<bank, branch, account, suffix>>
FieldTuples ==
    {<<b>> \o t : b \in PaddedBankTexts \cup OddBankTexts,
                  t \in {<<f2345, f6789012, f000>>}}
    \cup {<<b>> \o t : b \in GoodBankTexts, t \in GoodTails}
    \cup {<<b>> \o t : b \in {<<"0", "1">>}, t \in BadTails}

\* the four fields with "-" between them
Join4(a, b, c, d) == a \o <<"-">> \o b \o <<"-">> \o c \o <<"-">> \o d

Hyphenated(f) == Join4(f[1], f[2], f[3], f[4])

Contiguous(f) == f[1] \o f[2] \o f[3] \o f[4]

\* other shapes: empty, three and five segments, stray hyphens, text
OtherInputs ==
    {<<>>,
     <<"0", "1">> \o <<"-">> \o f2345 \o <<"-">> \o f000,
     Hyphenated(<<<<"0", "1">>, f2345, f6789012, f000>>) \o <<"-">> \o f000,
     <<"-">> \o Hyphenated(<<<<"0", "1">>, f2345, f6789012, f000>>),
     Hyphenated(<<<<"0", "1">>, f2345, f6789012, f000>>) \o <<"-">>,
     <<"0", "1", "-", "-">> \o f2345 \o <<"-">> \o f6789012 \o <<"-">> \o f000,
     <<"A", "C3", "A9">>,
     <<"-">>}

Inputs ==
    {Hyphenated(f) : f \in FieldTuples}
    \cup {Contiguous(f) : f \in FieldTuples}
    \cup OtherInputs

\* strings a server payload may carry in an account_number field
PayloadInputs ==
    {Hyphenated(<<<<"0", "1">>, f2345, f6789012, f000>>),
     Hyphenated(<<<<"3", "8">>, f9000, f0000000, f123>>),
     Contiguous(<<<<"3", "8">>, f9000, f0000000, f123>>),
     Hyphenated(<<<<"9", "9">>, f2345, f6789012, f000>>),
     <<"0", "1", "-">>,
     <<"A", "C3", "A9">>,
     <<>>}

\* ------------------------------------------------------------------------
\* State
\* ------------------------------------------------------------------------
VARIABLES
    acct,   \* per binding: how it was built, from what, and the result
    last,   \* the most recent call on a BankAccountNumber and what it gave
    idv,    \* the identifier binding: kind, input and result of construction
    idlast, \* the most recent call on the identifier and what it gave
    look,   \* the most recent BankPrefix call: function, argument, result
    idback, \* the identifier deserialized from what idv was serialized to
    url,    \* the most recent build_url call: arguments and result
    http,   \* the most recent request: what the server did and the result
    cli,    \* the AkahuClient: its fields, once constructed
    hdr     \* the most recent build_app_headers call and its result

vars == <<acct, last, idv, idlast, look, idback, url, http, cli, hdr>>

\* the state of the HTTP side of the crate
httpVars == <<url, http, cli, hdr>>

\* what the constructors and accessors of BankAccountNumber leave alone
othersOfAcct == <<idv, idlast, look, idback, httpVars>>

\* what the identifier operations leave alone
othersOfId == <<acct, last, look, idback, httpVars>>

\* what the BankPrefix calls leave alone
othersOfLook == <<acct, last, idv, idlast, idback, httpVars>>

\* what build_url, the requests and the client leave alone
othersOfHttp == <<acct, last, idv, idlast, look, idback>>

\* two bindings that hold the results of constructor calls
Slots == {"a", "b"}

Unbound == [st |-> "unbound", via |-> "none", input |-> <<>>, val |-> <<>>]

\* st is "Ok" with val the wrapped String, or "Err" with val the payload of
\* InvalidBankAccountError
Bound(via, s, r) == [st |-> r.tag, via |-> via, input |-> s, val |-> r.v]

NoCall == [slot |-> "none", op |-> "none", out |-> None]

NoIdError == InvalidIdError("", <<>>, <<>>)

IdUnbound ==
    [st |-> "unbound", via |-> "none", kind |-> "none", input |-> <<>>,
     val |-> <<>>, err |-> NoIdError]

\* st is "Ok" with val the wrapped String, or "Err" with err the
\* InvalidIdError; "moved" once into_inner has consumed the value
IdBound(via, kind, s, r) ==
    [st |-> r.tag, via |-> via, kind |-> kind, input |-> s,
     val |-> IF r.tag = "Ok" THEN r.v ELSE <<>>,
     err |-> IF r.tag = "Err" THEN r.v ELSE NoIdError]

NoIdCall == [op |-> "none", out |-> <<>>]

NoLookup == [fn |-> "none", arg |-> <<>>, out |-> None, of |-> "none"]

NoUrl == [st |-> "none", base |-> <<>>, path |-> <<>>, params |-> <<>>,
          out |-> <<>>]

NoRequest == [st |-> "none"]

NoClient == [st |-> "none"]

NoHeaders == [st |-> "none"]

Init ==
    /\ acct = [x \in Slots |-> Unbound]
    /\ last = NoCall
    /\ idv = IdUnbound
    /\ idlast = NoIdCall
    /\ look = NoLookup
    /\ idback = IdUnbound
    /\ url = NoUrl
    /\ http = NoRequest
    /\ cli = NoClient
    /\ hdr = NoHeaders

\* new building its result in one buffer that every value shares
New_shared_buffer(x, s) ==
    /\ acct[x].st = "unbound"
    /\ acct' = [z \in Slots |->
                  IF z = x THEN Bound("new", s, BankAccountNumber_new(s))
                  ELSE IF acct[z].st = "Ok"
                          /\ BankAccountNumber_new(s).tag = "Ok"
                       THEN [acct[z] EXCEPT !.val = BankAccountNumber_new(s).v]
                       ELSE acct[z]]
    /\ UNCHANGED <<last, othersOfAcct>>

\* BankAccountNumber::new(s)
New(x, s) ==
    /\ acct[x].st = "unbound"
    /\ acct' = [acct EXCEPT ![x] = Bound("new", s, BankAccountNumber_new(s))]
    /\ UNCHANGED <<last, othersOfAcct>>

\* s.parse::<BankAccountNumber>()
FromStr(x, s) ==
    /\ acct[x].st = "unbound"
    /\ acct' = [acct EXCEPT
                  ![x] = Bound("new", s, BankAccountNumber_from_str(s))]
    /\ UNCHANGED <<last, othersOfAcct>>

\* BankAccountNumber::try_from(String)
TryFromString(x, s) ==
    /\ acct[x].st = "unbound"
    /\ acct' = [acct EXCEPT
                  ![x] = Bound("new", s, BankAccountNumber_try_from_string(s))]
    /\ UNCHANGED <<last, othersOfAcct>>

\* BankAccountNumber::try_from(&str)
TryFromStr(x, s) ==
    /\ acct[x].st = "unbound"
    /\ acct' = [acct EXCEPT
                  ![x] = Bound("new", s, BankAccountNumber_try_from_str(s))]
    /\ UNCHANGED <<last, othersOfAcct>>

\* serde deserialization of a JSON string (PaymentDetails.account_number,
\* TransactionMeta.other_account)
Deserialize(x, s) ==
    /\ acct[x].st = "unbound"
    /\ acct' = [acct EXCEPT
                  ![x] = Bound("serde", s, BankAccountNumber_deserialize(s))]
    /\ UNCHANGED <<last, othersOfAcct>>

Call(x, op, out) ==
    /\ acct[x].st = "Ok"
    /\ last' = [slot |-> x, op |-> op, out |-> out]
    /\ UNCHANGED <<acct, othersOfAcct>>

CallPrefix(x) == Call(x, "prefix", prefix(acct[x].val))

CallBankCode(x) == Call(x, "bank_code", bank_code(acct[x].val))

CallBranchCode(x) == Call(x, "branch_code", branch_code(acct[x].val))

CallAccountNumber(x) == Call(x, "account_number", account_number(acct[x].val))

CallSuffix(x) == Call(x, "suffix", suffix(acct[x].val))

CallAsStr(x) == Call(x, "as_str", Ret(as_str(acct[x].val)))

CallToString(x) == Call(x, "to_string", Ret(to_string(acct[x].val)))

\* serde serialization of the value (serde_json::to_string and the like)
CallSerialize(x) ==
    Call(x, "serialize", Ret(BankAccountNumber_serialize(acct[x].val)))

\* a == b, a the value of x and b the value of the other binding
CallEq(x, y) ==
    /\ x # y
    /\ acct[y].st = "Ok"
    /\ Call(x, "eq", Ret(BankAccountNumber_eq(acct[x].val, acct[y].val)))

\* the value hashed into a Hasher
CallHash(x) == Call(x, "hash", Ret(BankAccountNumber_hash(acct[x].val)))

\* deserialization of the string the last serialization produced
DeserializeWire(y) ==
    /\ last.op = "serialize"
    /\ last.slot # y
    /\ acct[y].st = "unbound"
    /\ acct' = [acct EXCEPT
                  ![y] = Bound("wire", last.out.v,
                               BankAccountNumber_deserialize(last.out.v))]
    /\ UNCHANGED <<last, othersOfAcct>>

Next ==
    \/ \E x \in Slots, s \in Inputs : New(x, s)
    \/ \E x \in Slots, s \in Inputs : FromStr(x, s)
    \/ \E x \in Slots, s \in Inputs : TryFromString(x, s)
    \/ \E x \in Slots, s \in Inputs : TryFromStr(x, s)
    \/ \E x \in Slots, s \in PayloadInputs : Deserialize(x, s)
    \/ \E x \in Slots : CallPrefix(x)
    \/ \E x \in Slots : CallBankCode(x)
    \/ \E x \in Slots : CallBranchCode(x)
    \/ \E x \in Slots : CallAccountNumber(x)
    \/ \E x \in Slots : CallSuffix(x)
    \/ \E x \in Slots : CallAsStr(x)
    \/ \E x \in Slots : CallToString(x)
    \/ \E x, y \in Slots : CallEq(x, y)
    \/ \E x \in Slots : CallHash(x)

Spec == Init /\ [][Next]_vars

\* ------------------------------------------------------------------------
\* Identifier texts and operations
\* ------------------------------------------------------------------------
\* the prefix each kind of identifier is documented to carry
DocumentedPrefix ==
    [AccountId |-> <<"a", "c", "c", "_">>,
     TransactionId |-> <<"t", "r", "a", "n", "s", "_">>,
     UserId |-> <<"u", "s", "e", "r", "_">>,
     TransferId |-> <<"t", "r", "a", "n", "s", "f", "e", "r", "_">>,
     PaymentId |-> <<"p", "a", "y", "m", "e", "n", "t", "_">>,
     ConnectionId |-> <<"c", "o", "n", "n", "_">>,
     CategoryId |-> <<"c", "a", "t", "_">>,
     MerchantId |-> <<"_", "m", "e", "r", "c", "h", "a", "n", "t">>,
     AuthorizationId |-> <<"a", "u", "t", "h", "_">>]

\* the largest number of characters that follow the prefix part of a text
MaxTail == 1

RECURSIVE Ones(_)
Ones(k) == IF k = 0 THEN <<>> ELSE <<"1">> \o Ones(k - 1)

\* every initial part of every prefix, the empty and the whole one included
PrefixCuts ==
    UNION {{SubSeq(DocumentedPrefix[k], 1, n) :
               n \in 0..Len(DocumentedPrefix[k])} : k \in DOMAIN DocumentedPrefix}

f123456 == <<"1", "2", "3", "4", "5", "6">>

\* the texts of the crate's own tests
TestIdTexts ==
    {<<"a", "c", "c", "_">> \o f123456,
     <<"t", "r", "a", "n", "s", "_">> \o f123456,
     f123456}

\* texts offered as identifiers: a cut of a prefix followed by some digits
IdTexts ==
    {c \o Ones(k) : c \in PrefixCuts, k \in 0..MaxTail} \cup TestIdTexts

\* $name::new(s)
IdNew(kind, s) ==
    /\ idv.st = "unbound"
    /\ idv' = IdBound("new", kind, s, Id_new(kind, s))
    /\ UNCHANGED <<idlast, othersOfId>>

\* $name::new_unchecked(s), callable inside the crate only
IdNewUnchecked(kind, s) ==
    /\ idv.st = "unbound"
    /\ idv' = IdBound("new_unchecked", kind, s, Ok(Id_new_unchecked(kind, s)))
    /\ UNCHANGED <<idlast, othersOfId>>

\* deserialization of a JSON string as $name
IdDeserialize(kind, s) ==
    /\ idv.st = "unbound"
    /\ idv' = IdBound("serde", kind, s, Id_deserialize(kind, s))
    /\ UNCHANGED <<idlast, othersOfId>>

\* id.as_str()
IdAsStr ==
    /\ idv.st = "Ok"
    /\ idlast' = [op |-> "as_str", out |-> Id_as_str(idv.val)]
    /\ UNCHANGED <<idv, othersOfId>>

\* id.to_string()
IdToString ==
    /\ idv.st = "Ok"
    /\ idlast' = [op |-> "to_string", out |-> Id_to_string(idv.val)]
    /\ UNCHANGED <<idv, othersOfId>>

\* id.into_inner(), which consumes the identifier
IdIntoInner ==
    /\ idv.st = "Ok"
    /\ idlast' = [op |-> "into_inner", out |-> Id_into_inner(idv.val)]
    /\ idv' = [idv EXCEPT !.st = "moved"]
    /\ UNCHANGED othersOfId

\* serde serialization of the identifier
IdSerialize ==
    /\ idv.st = "Ok"
    /\ idlast' = [op |-> "serialize", out |-> Id_serialize(idv.val)]
    /\ UNCHANGED <<idv, othersOfId>>

\* deserialization, as the same kind, of the string the last serialization
\* produced
IdDeserializeWire ==
    /\ idlast.op = "serialize"
    /\ idback.st = "unbound"
    /\ idback' = IdBound("wire", idv.kind, idlast.out,
                         Id_deserialize(idv.kind, idlast.out))
    /\ UNCHANGED <<acct, last, idv, idlast, look, httpVars>>

NextId ==
    \/ \E kind \in IdKinds, s \in IdTexts : IdNew(kind, s)
    \/ \E kind \in IdKinds, s \in IdTexts : IdNewUnchecked(kind, s)
    \/ \E kind \in IdKinds, s \in IdTexts : IdDeserialize(kind, s)
    \/ IdAsStr
    \/ IdToString
    \/ IdIntoInner

SpecId == Init /\ [][NextId]_vars

\* ------------------------------------------------------------------------
\* Serialization and deserialization of constructed values
\* ------------------------------------------------------------------------
NextSerde ==
    \/ \E s \in Inputs : New("a", s)
    \/ CallSerialize("a")
    \/ DeserializeWire("b")
    \/ \E kind \in IdKinds, s \in IdTexts : IdNew(kind, s)
    \/ IdSerialize
    \/ IdDeserializeWire

SpecSerde == Init /\ [][NextSerde]_vars

\* ------------------------------------------------------------------------
\* BankPrefix calls
\* ------------------------------------------------------------------------
\* the largest number whose decimal text is looked up
MaxCode == 350

\* texts with a sign, a letter, a hyphen or a two-byte character
OddCodeTexts ==
    {<<"+", "1">>, <<"-", "1">>, <<"+">>, <<"-">>, <<"0", "+", "1">>,
     <<"+", "0", "1">>, <<"1", "-">>, <<"1", "A">>, <<"A">>,
     <<"C3", "A9">>, <<"1", "+">>}

CodeTexts ==
    {Zeros(k) \o Dec(n) : n \in 0..MaxCode, k \in 0..MaxPad}
    \cup {<<>>, <<"0", "0", "0", "0", "0">>}
    \cup OddCodeTexts

Looked(fn, arg, out, of) == [fn |-> fn, arg |-> arg, out |-> out, of |-> of]

\* BankPrefix::try_from(value), value any u8
TryFromU8(value) ==
    /\ look.fn = "none"
    /\ look' = Looked("try_from", value, BankPrefix_try_from(value), "none")
    /\ UNCHANGED othersOfLook

\* s.parse::<BankPrefix>()
ParsePrefix(s) ==
    /\ look.fn = "none"
    /\ look' = Looked("from_str", s, BankPrefix_from_str(s), "none")
    /\ UNCHANGED othersOfLook

\* p.as_str()
DisplayCode(p) ==
    /\ look.fn = "none"
    /\ look' = Looked("as_str", p, Ret(BankPrefix_as_str(p)), "none")
    /\ UNCHANGED othersOfLook

\* p.bank_name()
BankName(p) ==
    /\ look.fn = "none"
    /\ look' = Looked("bank_name", p, Ret(BankPrefix_bank_name(p)), "none")
    /\ UNCHANGED othersOfLook

\* BankPrefix::from_str(p.as_str()) on the display code just obtained
ParseDisplayCode ==
    /\ look.fn = "as_str"
    /\ look' = Looked("from_str", look.out.v,
                      BankPrefix_from_str(look.out.v), look.arg)
    /\ UNCHANGED othersOfLook

NextReg ==
    \/ \E value \in 0..U8Max : TryFromU8(value)
    \/ \E s \in CodeTexts : ParsePrefix(s)
    \/ \E p \in BankPrefixVariants : DisplayCode(p)
    \/ \E p \in BankPrefixVariants : BankName(p)
    \/ ParseDisplayCode

SpecReg == Init /\ [][NextReg]_vars

\* ------------------------------------------------------------------------
\* build_url calls
\* ------------------------------------------------------------------------
\* the largest number of query parameters in a call
MaxParams == 2

UrlBases == {<<"x">>, <<"x", "/", "a">>}

UrlPaths == {<<"u">>, <<"u", "/", "3">>}

UrlKeys == {<<"q">>, <<"a", "g", "e">>}

\* values: empty, plain, with a space, an ampersand, an equals sign, a
\* question mark and a percent sign, and a two-byte character
UrlValues ==
    {<<>>, <<"3", "0">>, <<"a", " ", "b">>, <<"a", "&", "b">>,
     <<"a", "=", "b">>, <<"?", "%">>, <<"C3", "A9">>}

UrlPairs == {<<k, v>> : k \in UrlKeys, v \in UrlValues}

RECURSIVE SeqsUpTo(_, _)
SeqsUpTo(S, n) ==
    IF n = 0 THEN {<<>>}
    ELSE SeqsUpTo(S, n - 1)
         \cup {Append(q, e) : q \in {r \in SeqsUpTo(S, n - 1) : Len(r) = n - 1},
                              e \in S}

UrlParams == SeqsUpTo(UrlPairs, MaxParams)

\* build_url(base, path, params)
BuildUrl(base, path, params) ==
    /\ url.st = "none"
    /\ url' = [st |-> "built", base |-> base, path |-> path,
               params |-> params, out |-> build_url(base, path, params)]
    /\ UNCHANGED <<cli, hdr, http, othersOfHttp>>

NextUrl ==
    /\ url.st = "none"
    /\ \E base \in UrlBases, path \in UrlPaths, params \in UrlParams :
          BuildUrl(base, path, params)

SpecUrl == Init /\ [][NextUrl]_vars

\* ------------------------------------------------------------------------
\* Requests
\* ------------------------------------------------------------------------
\* every value a StatusCode can have
Statuses == 100..999

\* response bodies: the JSON of the expected type, the JSON of an
\* ErrorResponse, JSON that is both (T = serde_json::Value), and text that
\* is neither
Bodies ==
    {[text |-> "item", asT |-> TRUE, asError |-> FALSE, message |-> ""],
     [text |-> "error", asT |-> FALSE, asError |-> TRUE,
      message |-> "message of the body"],
     [text |-> "both", asT |-> TRUE, asError |-> TRUE,
      message |-> "message of the body"],
     [text |-> "garbage", asT |-> FALSE, asError |-> FALSE, message |-> ""]}

Requested(fn, send, status, read, body, path, out) ==
    [st |-> "done", fn |-> fn, send |-> send, status |-> status,
     read |-> read, body |-> body, path |-> path, out |-> out]

\* self.execute_request(req).await
ExecuteRequest(send, status, read, body) ==
    /\ http.st = "none"
    /\ http' = Requested("execute_request", send, status, read, body,
                         execute_request(send, status, read, body).path,
                         execute_request(send, status, read, body).out)
    /\ UNCHANGED <<url, cli, hdr, othersOfHttp>>

\* self.handle_error_response(res).await, which the endpoints that read no
\* body call on a response that is not a success
HandleErrorResponse(status, read, body) ==
    /\ http.st = "none"
    /\ ~is_success(status)
    /\ http' = Requested("handle_error_response", "responds", status, read,
                         body, "handle_error_response",
                         handle_error_response(status, read, body))
    /\ UNCHANGED <<url, cli, hdr, othersOfHttp>>

NextHttp ==
    \/ /\ http.st = "none"
       /\ \E send \in {"fails", "responds"}, status \in Statuses,
             read \in {"fails", "ok"}, body \in Bodies :
               ExecuteRequest(send, status, read, body)
    \/ /\ http.st = "none"
       /\ \E status \in Statuses, read \in {"fails", "ok"}, body \in Bodies :
               HandleErrorResponse(status, read, body)

SpecHttp == Init /\ [][NextHttp]_vars

\* ------------------------------------------------------------------------
\* The client
\* ------------------------------------------------------------------------
\* the greatest length of the tokens and secrets built from letters and ":"
MaxToken == 2

\* app tokens and secrets: every text over "a" and ":" up to MaxToken
\* bytes, the empty one included, and a two-byte character
TokenTexts == SeqsUpTo({"a", ":"}, MaxToken) \cup {<<"C3", "A9">>}

BaseUrls == {None, Some(<<"x">>)}

\* AkahuClient::new(client, app_id_token, base_url)
ClientNew(app_id_token, base_url) ==
    /\ cli.st = "none"
    /\ cli' = AkahuClient_new("H", app_id_token, base_url)
    /\ UNCHANGED <<url, http, hdr, othersOfHttp>>

\* client = client.with_app_secret(app_secret)
WithAppSecret(app_secret) ==
    /\ cli.st = "built"
    /\ cli' = with_app_secret(cli, app_secret)
    /\ UNCHANGED <<url, http, hdr, othersOfHttp>>

\* self.build_app_headers(), as the app-scoped endpoints call it
BuildAppHeaders ==
    /\ cli.st = "built"
    /\ hdr' = [st |-> "called", self |-> cli, out |-> build_app_headers(cli)]
    /\ UNCHANGED <<url, http, cli, othersOfHttp>>

NextClient ==
    \/ \E t \in TokenTexts, b \in BaseUrls : ClientNew(t, b)
    \/ \E s \in TokenTexts : WithAppSecret(s)
    \/ BuildAppHeaders

SpecClient == Init /\ [][NextClient]_vars

\* ------------------------------------------------------------------------
\* Callers that run side by side
\* ------------------------------------------------------------------------
\* what the callers pass: accepted and rejected account numbers, looked-up
\* codes and texts, identifier texts
SharedInputs ==
    {Hyphenated(<<<<"0", "1">>, f2345, f6789012, f000>>),
     Contiguous(<<<<"3", "8">>, f9000, f0000000, f123>>),
     Hyphenated(<<<<"9", "9">>, f2345, f6789012, f000>>),
     Hyphenated(<<<<"1">>, f2345, f6789012, f000>>)}

SharedCodes == {1, 9}

SharedCodeTexts == {<<"0", "1">>, <<"9", "9">>, <<>>}

SharedIdKinds == {"AccountId", "TransactionId"}

SharedIdTexts ==
    {<<"a", "c", "c", "_", "1">>, <<"t", "r", "a", "n", "s", "_", "1">>,
     <<"1">>}

\* every call takes its arguments by value or by shared reference and
\* touches no static, so a call is one step and the steps of the callers
\* interleave freely
NextShared ==
    \/ \E x \in Slots, s \in SharedInputs : New(x, s)
    \/ \E x \in Slots : CallPrefix(x)
    \/ \E x \in Slots : CallBankCode(x)
    \/ \E x \in Slots : CallBranchCode(x)
    \/ \E x \in Slots : CallAccountNumber(x)
    \/ \E x \in Slots : CallSuffix(x)
    \/ \E x \in Slots : CallAsStr(x)
    \/ \E value \in SharedCodes : TryFromU8(value)
    \/ \E s \in SharedCodeTexts : ParsePrefix(s)
    \/ \E kind \in SharedIdKinds, s \in SharedIdTexts : IdNew(kind, s)
    \/ IdAsStr

SpecShared == Init /\ [][NextShared]_vars

\* ------------------------------------------------------------------------
\* Vocabulary of the properties
\* ------------------------------------------------------------------------
\* the 27 registered bank codes
RegistryCodes == (1..6) \cup {8} \cup (10..25) \cup {30, 31, 38, 88}

\* the number a digit string denotes
RECURSIVE NumVal(_)
NumVal(s) ==
    IF s = <<>> THEN 0
    ELSE NumVal(SubSeq(s, 1, Len(s) - 1)) * 10 + DigitVal(s[Len(s)])

\* a field that denotes a registered bank code
Resolvable(field) ==
    field # <<>> /\ AllAsciiDigits(field) /\ NumVal(field) \in RegistryCodes

\* exactly n ASCII digits
DigitField(field, n) == Len(field) = n /\ AllAsciiDigits(field)

\* BB-CCCC-NNNNNNN-SSS with BB a registered code
IsCanonical(v) ==
    /\ Len(v) = 19
    /\ v[3] = "-" /\ v[8] = "-" /\ v[16] = "-"
    /\ DigitField(SubSeq(v, 1, 2), 2)
    /\ DigitField(SubSeq(v, 4, 7), 4)
    /\ DigitField(SubSeq(v, 9, 15), 7)
    /\ DigitField(SubSeq(v, 17, 19), 3)
    /\ Resolvable(SubSeq(v, 1, 2))

\* four fields of widths 2, 4, 7, 3, all digits, the first a registered code
WellFormedFields(f) ==
    /\ Len(f) = 4
    /\ DigitField(f[1], 2) /\ DigitField(f[2], 4)
    /\ DigitField(f[3], 7) /\ DigitField(f[4], 3)
    /\ Resolvable(f[1])

\* the well-formed tuples among those the inputs are built from
WellFormedTuples == {f \in FieldTuples : WellFormedFields(f)}

SegmentLengths(parts) == [i \in 1..Len(parts) |-> Len(parts[i])]

\* the binding was made by new or by one of the conversions that call it
ViaNew(x) == acct[x].via = "new"

Built(x) == ViaNew(x) /\ acct[x].st = "Ok"

\* the bank-code field of an input: the first segment of a hyphenated
\* input, the first two bytes of any other
BankField(s) ==
    IF Contains(s, "-") THEN Split(s, "-")[1]
    ELSE SubSeq(s, 1, IF Len(s) < 2 THEN Len(s) ELSE 2)

in_1_2345 == Hyphenated(<<<<"1">>, f2345, f6789012, f000>>)
in_001_2345 == Hyphenated(<<<<"0", "0", "1">>, f2345, f6789012, f000>>)
in_01_2345 == Hyphenated(<<<<"0", "1">>, f2345, f6789012, f000>>)
in_12_3456 == Hyphenated(<<<<"1", "2">>, f3456, f7890123, f001>>)
in_38_9000 == Hyphenated(<<<<"3", "8">>, f9000, f0000000, f123>>)
in_3890000 == Contiguous(<<<<"3", "8">>, f9000, f0000000, f123>>)
in_99_2345 == Hyphenated(<<<<"9", "9">>, f2345, f6789012, f000>>)
in_01_9000 == Hyphenated(<<<<"0", "1">>, f9000, f0000000, f123>>)

\* ------------------------------------------------------------------------
\* Properties
\* ------------------------------------------------------------------------

\* C1: every value new returns Ok stores 19 characters BB-CCCC-NNNNNNN-SSS,
\* digits and hyphens at the fixed positions and BB a registered code.
C1_CanonicalForm ==
    \A x \in Slots : Built(x) => IsCanonical(acct[x].val)

\* C1: new("1-2345-6789012-000") has returned Ok
C1_Reached ==
    \E x \in Slots : Built(x) /\ acct[x].input = in_1_2345

\* C2: new returns Err for every hyphenated input whose segments do not
\* have lengths exactly 2, 4, 7, 3.
C2_RejectsWrongWidth ==
    \A x \in Slots :
        (/\ ViaNew(x)
         /\ Contains(acct[x].input, "-")
         /\ SegmentLengths(Split(acct[x].input, "-")) # <<2, 4, 7, 3>>)
        => acct[x].st = "Err"

\* C2: a hyphenated input with a three-digit bank segment was given to new
C2_Reached ==
    \E x \in Slots : ViaNew(x) /\ acct[x].input = in_001_2345

\* C3: on a value new returned Ok, prefix, bank_code, branch_code,
\* account_number and suffix all return without panicking.
C3_AccessorsNeverPanic ==
    (last.slot \in Slots /\ ViaNew(last.slot)) => last.out.tag # "Panic"

\* C3: suffix() was called on the value of new("1-2345-6789012-000")
C3_Reached ==
    /\ last.slot \in Slots
    /\ Built(last.slot)
    /\ acct[last.slot].input = in_1_2345
    /\ last.op = "suffix"

\* C4: every value obtained through new, FromStr, TryFrom or
\* deserialization is in canonical form and its accessors never panic.
C4_OnlyValidatedValues ==
    /\ \A x \in Slots : acct[x].st = "Ok" => IsCanonical(acct[x].val)
    /\ last.slot \in Slots => last.out.tag # "Panic"

\* C4: a value was deserialized from a string that is not an account number
C4_Reached ==
    \E x \in Slots :
        /\ acct[x].via = "serde"
        /\ acct[x].st = "Ok"
        /\ ~IsCanonical(acct[x].val)

\* C5: for every value v new returned Ok, bank_code-branch_code-
\* account_number-suffix joined by "-" equals v.as_str().
C5_ExtractionIntegrity ==
    \A x \in Slots :
        Built(x) =>
            LET v == acct[x].val
            IN  /\ bank_code(v).tag = "Ret"
                /\ branch_code(v).tag = "Ret"
                /\ account_number(v).tag = "Ret"
                /\ suffix(v).tag = "Ret"
                /\ Join4(bank_code(v).v, branch_code(v).v,
                         account_number(v).v, suffix(v).v) = as_str(v)

\* C5: new("001-2345-6789012-000") has returned Ok
C5_Reached ==
    \E x \in Slots : Built(x) /\ acct[x].input = in_001_2345

\* C6: for well-formed fields B, C, N, S, new of the contiguous text and
\* new of the hyphenated text both succeed with equal stored strings and
\* equal results from every accessor.
C6_EncodingsEquivalent ==
    \A x, y \in Slots :
        (/\ ViaNew(x) /\ ViaNew(y)
         /\ \E f \in WellFormedTuples :
                /\ acct[x].input = Contiguous(f)
                /\ acct[y].input = Hyphenated(f))
        => /\ acct[x].st = "Ok" /\ acct[y].st = "Ok"
           /\ as_str(acct[x].val) = as_str(acct[y].val)
           /\ prefix(acct[x].val) = prefix(acct[y].val)
           /\ bank_code(acct[x].val) = bank_code(acct[y].val)
           /\ branch_code(acct[x].val) = branch_code(acct[y].val)
           /\ account_number(acct[x].val) = account_number(acct[y].val)
           /\ suffix(acct[x].val) = suffix(acct[y].val)

\* C6: one binding built from "3890000000000123", the other from
\* "38-9000-0000000-123"
C6_Reached ==
    \E x, y \in Slots :
        /\ Built(x) /\ acct[x].input = in_3890000
        /\ Built(y) /\ acct[y].input = in_38_9000

\* C7: for every canonical x, new(x) succeeds and to_string gives x back.
C7_RoundTrip ==
    \A x \in Slots :
        (ViaNew(x) /\ IsCanonical(acct[x].input))
        => /\ acct[x].st = "Ok"
           /\ to_string(acct[x].val) = acct[x].input
           /\ (last.slot = x /\ last.op = "to_string")
              => last.out = Ret(acct[x].input)

\* C7: to_string() was called on the value of new("12-3456-7890123-001")
C7_Reached ==
    \E x \in Slots :
        /\ Built(x) /\ acct[x].input = in_12_3456
        /\ last.slot = x /\ last.op = "to_string"

\* what the call recorded in last must have returned for a value built
\* from the 16 digits s
SliceOf(s, op) ==
    CASE op = "bank_code" -> SubSeq(s, 1, 2)
      [] op = "branch_code" -> SubSeq(s, 3, 6)
      [] op = "account_number" -> SubSeq(s, 7, 13)
      [] op = "suffix" -> SubSeq(s, 14, 16)

\* the variant whose discriminant is n
VariantOf(n) == CHOOSE p \in BankPrefixVariants : BankPrefix[p] = n

\* C8: for 16 digits s starting with a registered code, new stores
\* s[0..2]-s[2..6]-s[6..13]-s[13..16], the four accessors return these
\* slices and prefix() is the registry entry of s[0..2].
C8_ContiguousSlices ==
    \A x \in Slots :
        LET s == acct[x].input
            v == acct[x].val
        IN  (/\ ViaNew(x)
             /\ DigitField(s, 16)
             /\ Resolvable(SubSeq(s, 1, 2)))
            => /\ acct[x].st = "Ok"
               /\ v = Join4(SubSeq(s, 1, 2), SubSeq(s, 3, 6),
                            SubSeq(s, 7, 13), SubSeq(s, 14, 16))
               /\ bank_code(v) = Ret(SubSeq(s, 1, 2))
               /\ branch_code(v) = Ret(SubSeq(s, 3, 6))
               /\ account_number(v) = Ret(SubSeq(s, 7, 13))
               /\ suffix(v) = Ret(SubSeq(s, 14, 16))
               /\ prefix(v) = Ret(VariantOf(NumVal(SubSeq(s, 1, 2))))
               /\ (last.slot = x /\ last.op \in {"bank_code", "branch_code",
                                                 "account_number", "suffix"})
                  => last.out = Ret(SliceOf(s, last.op))
               /\ (last.slot = x /\ last.op = "prefix")
                  => last.out = Ret(VariantOf(NumVal(SubSeq(s, 1, 2))))
               /\ s = in_3890000
                  => /\ v = in_38_9000
                     /\ prefix(v) = Ret("Kiwibank")
                     /\ BankPrefix_bank_name(prefix(v).v) = "Kiwibank"
                     /\ branch_code(v) = Ret(f9000)
                     /\ account_number(v) = Ret(f0000000)
                     /\ suffix(v) = Ret(f123)

\* C8: account_number() was called on the value of new("3890000000000123")
C8_Reached ==
    \E x \in Slots :
        /\ Built(x) /\ acct[x].input = in_3890000
        /\ last.slot = x /\ last.op = "account_number"

\* C9: new returns Ok for every hyphenated input of four digit segments of
\* widths 2, 4, 7, 3 whose first is a registered code, and for every 16
\* digits whose first two are a registered code; "01-2345-6789012-000" has
\* the components 01, 2345, 6789012, 000.
C9_AcceptsBothShapes ==
    \A x \in Slots :
        LET s == acct[x].input
            parts == Split(s, "-")
        IN  /\ (ViaNew(x) /\ Contains(s, "-") /\ WellFormedFields(parts))
               => acct[x].st = "Ok"
            /\ (ViaNew(x) /\ DigitField(s, 16) /\ Resolvable(SubSeq(s, 1, 2)))
               => acct[x].st = "Ok"
            /\ (ViaNew(x) /\ s = in_01_2345)
               => /\ bank_code(acct[x].val) = Ret(<<"0", "1">>)
                  /\ branch_code(acct[x].val) = Ret(f2345)
                  /\ account_number(acct[x].val) = Ret(f6789012)
                  /\ suffix(acct[x].val) = Ret(f000)

\* C9: one binding built from a hyphenated input and one from 16 digits
C9_Reached ==
    \E x, y \in Slots :
        /\ Built(x) /\ acct[x].input = in_01_2345
        /\ Built(y) /\ DigitField(acct[y].input, 16)

\* C10: new returns Err for every input, hyphenated or not, whose bank-code
\* field does not denote one of the 27 registered codes.
C10_RejectsUnknownBank ==
    \A x \in Slots :
        (ViaNew(x) /\ ~Resolvable(BankField(acct[x].input)))
        => acct[x].st = "Err"

\* C10: new("99-2345-6789012-000") has returned Err, and so has new of 16
\* digits that start with an unregistered code
C10_Reached ==
    \E x, y \in Slots :
        /\ ViaNew(x) /\ acct[x].input = in_99_2345 /\ acct[x].st = "Err"
        /\ ViaNew(y) /\ DigitField(acct[y].input, 16)
        /\ ~Resolvable(SubSeq(acct[y].input, 1, 2)) /\ acct[y].st = "Err"

in_01_2345_000 == <<"0", "1">> \o <<"-">> \o f2345 \o <<"-">> \o f000
in_AB_2345 == Hyphenated(<<<<"A", "B">>, f2345, f6789012, f000>>)
in_text == <<"A", "C3", "A9">>

\* C11: new returns Err for every hyphenated input whose split on "-" does
\* not give exactly four non-empty segments, and for every input without
\* hyphens whose length is not 16.
C11_RejectsWrongFieldCount ==
    \A x \in Slots :
        LET s == acct[x].input
            parts == Split(s, "-")
        IN  /\ (/\ ViaNew(x)
                /\ Contains(s, "-")
                /\ \/ Len(parts) # 4
                   \/ \E i \in 1..Len(parts) : parts[i] = <<>>)
               => acct[x].st = "Err"
            /\ (ViaNew(x) /\ ~Contains(s, "-") /\ Len(s) # 16)
               => acct[x].st = "Err"

\* C11: new has returned Err for "01-2345-000" and for a string of 15 digits
C11_Reached ==
    \E x, y \in Slots :
        /\ ViaNew(x) /\ acct[x].input = in_01_2345_000 /\ acct[x].st = "Err"
        /\ ViaNew(y) /\ DigitField(acct[y].input, 15) /\ acct[y].st = "Err"

\* C12: new returns Err for every input that holds a character other than
\* an ASCII digit in any of its fields (the "-" between fields apart).
C12_RejectsNonDigits ==
    \A x \in Slots :
        (/\ ViaNew(x)
         /\ \E i \in 1..Len(acct[x].input) :
                /\ acct[x].input[i] # "-"
                /\ ~IsAsciiDigit(acct[x].input[i]))
        => acct[x].st = "Err"

\* C12: new has returned Err for "AB-2345-6789012-000" and for 16 characters
\* without hyphens of which one is a letter
C12_Reached ==
    \E x, y \in Slots :
        /\ ViaNew(x) /\ acct[x].input = in_AB_2345 /\ acct[x].st = "Err"
        /\ ViaNew(y) /\ Len(acct[y].input) = 16
        /\ ~Contains(acct[y].input, "-") /\ ~AllAsciiDigits(acct[y].input)
        /\ acct[y].st = "Err"

\* C13: new always returns Ok or Err; when it returns Err the payload of
\* InvalidBankAccountError is the input unchanged, and no BankAccountNumber
\* exists on which an accessor could be called.
C13_ErrorCarriesInput ==
    /\ \A x \in Slots :
          ViaNew(x) =>
              /\ acct[x].st \in {"Ok", "Err"}
              /\ acct[x].st = "Err" => acct[x].val = acct[x].input
    /\ last.slot \in Slots => acct[last.slot].st = "Ok"

\* C13: new has returned Err for a non-ASCII string and for a hyphenated
\* input with an unknown bank code
C13_Reached ==
    \E x, y \in Slots :
        /\ ViaNew(x) /\ acct[x].input = in_text /\ acct[x].st = "Err"
        /\ ViaNew(y) /\ acct[y].input = in_99_2345 /\ acct[y].st = "Err"

\* ------------------------------------------------------------------------
\* Properties of the identifiers (specification SpecId)
\* ------------------------------------------------------------------------
\* s is p followed by something, possibly nothing
HasPrefix(s, p) == \E n \in 0..Len(s) : SubSeq(s, 1, n) = p

\* an identifier value exists or existed in the binding
IdHeld == idv.st \in {"Ok", "moved"}

id_acc == <<"a", "c", "c">>
id_acc_ == <<"a", "c", "c", "_">>
id_acc_1 == <<"a", "c", "c", "_", "1">>
id_1 == <<"1">>
id_trans_1 == <<"t", "r", "a", "n", "s", "_", "1">>

\* C14: for each of the nine kinds, Kind::new(text) returns Ok exactly when
\* text starts with the kind's prefix; the empty text and each proper part
\* of the prefix are rejected, the prefix itself and the prefix followed by
\* anything are accepted.
C14_PrefixEnforced ==
    idv.via = "new" =>
        LET p == DocumentedPrefix[idv.kind]
        IN  /\ idv.st \in {"Ok", "Err", "moved"}
            /\ IdHeld <=> HasPrefix(idv.input, p)
            /\ IdHeld => idv.val = idv.input
            /\ idv.input = <<>> => idv.st = "Err"
            /\ (\E n \in 0..(Len(p) - 1) : idv.input = SubSeq(p, 1, n))
               => idv.st = "Err"
            /\ idv.input = p => IdHeld

\* C14: AccountId::new("acc") has returned Err
C14_Reached ==
    /\ idv.via = "new" /\ idv.kind = "AccountId"
    /\ idv.input = id_acc /\ idv.st = "Err"

\* C15: every identifier obtained through Kind::new or through
\* deserialization of a string starts with the prefix of its kind.
C15_IdentifierInvariant ==
    (idv.via \in {"new", "serde"} /\ IdHeld)
    => HasPrefix(idv.val, DocumentedPrefix[idv.kind])

\* C15: an AccountId was deserialized from the string "1"
C15_Reached ==
    /\ idv.via = "serde" /\ idv.kind = "AccountId"
    /\ idv.input = id_1 /\ idv.st = "Ok"

\* C16: when Kind::new(text) fails, the error names the kind, the kind's
\* prefix and the text unchanged, and no identifier exists.
C16_ErrorFields ==
    (idv.via = "new" /\ idv.st = "Err")
    => /\ idv.err.type_name = idv.kind
       /\ idv.err.expected_prefix = DocumentedPrefix[idv.kind]
       /\ idv.err.actual_value = idv.input
       /\ idv.val = <<>>
       /\ idlast = NoIdCall

\* C16: TransactionId::new("acc_1") has returned Err
C16_Reached ==
    /\ idv.via = "new" /\ idv.kind = "TransactionId"
    /\ idv.input = id_acc_1 /\ idv.st = "Err"

ExpectedLookup(n) ==
    IF n \in RegistryCodes THEN Ok(VariantOf(n)) ELSE Err("()")

\* the two-digit, zero-padded decimal of n < 100
TwoDigits(n) == <<DigitChars[(n \div 10) + 1], DigitChars[(n % 10) + 1]>>

\* empty, or zeros only
OnlyZeros(s) == \A i \in 1..Len(s) : s[i] = "0"

\* C18: from_str strips leading zeros before the numeric lookup: "01" and
\* "1" both give ANZ, a digit string gives the entry of its number, one more
\* leading zero never changes the result, and an empty or all-zero string
\* gives Err.
C18_LeadingZerosStripped ==
    look.fn = "from_str" =>
        /\ look.arg \in {<<"0", "1">>, <<"1">>} => look.out = Ok("Anz")
        /\ (AllAsciiDigits(look.arg) /\ NumVal(look.arg) <= U8Max)
           => look.out = ExpectedLookup(NumVal(look.arg))
        /\ look.out = BankPrefix_from_str(<<"0">> \o look.arg)
        /\ OnlyZeros(look.arg) => look.out.tag = "Err"

\* C18: from_str("001") has returned the ANZ entry
C18_Reached ==
    /\ look.fn = "from_str" /\ look.arg = <<"0", "0", "1">>
    /\ look.out = Ok("Anz")

\* C19: try_from(u8), and from_str of the decimal text of the same number,
\* succeed for exactly the 27 codes 1-6, 8, 10-25, 30, 31, 38, 88 and give
\* Err for every other value of 0..=255; the enum has these 27 entries.
C19_ClosedRegistry ==
    /\ Cardinality(BankPrefixVariants) = 27
    /\ {BankPrefix[p] : p \in BankPrefixVariants} = RegistryCodes
    /\ look.fn = "try_from"
       => /\ look.out.tag = "Ok" <=> look.arg \in RegistryCodes
          /\ look.out.tag = "Ok" => BankPrefix[look.out.v] = look.arg
    /\ (/\ look.fn = "from_str"
        /\ AllAsciiDigits(look.arg) /\ look.arg # <<>>
        /\ NumVal(look.arg) <= U8Max
        /\ look.arg = Dec(NumVal(look.arg)))
       => /\ look.out.tag = "Ok" <=> NumVal(look.arg) \in RegistryCodes
          /\ look.out.tag = "Ok" => BankPrefix[look.out.v] = NumVal(look.arg)

\* C19: try_from(9) has returned Err
C19_Reached ==
    look.fn = "try_from" /\ look.arg = 9 /\ look.out.tag = "Err"

\* C20: for each entry p, p.as_str() is the two-digit zero-padded decimal of
\* p's code, and from_str(p.as_str()) is p again.
C20_DisplayCodeRoundTrip ==
    /\ look.fn = "as_str"
       => look.out = Ret(TwoDigits(BankPrefix[look.arg]))
    /\ (look.fn = "from_str" /\ look.of # "none")
       => /\ look.arg = TwoDigits(BankPrefix[look.of])
          /\ look.out = Ok(look.of)

\* C20: from_str(AnzPartner.as_str()) has returned AnzPartner
C20_Reached ==
    /\ look.fn = "from_str" /\ look.of = "AnzPartner"
    /\ look.out = Ok("AnzPartner")

C22_EqualityOnStoredString ==
    \A x, y \in Slots :
        (Built(x) /\ Built(y)) =>
            LET a == acct[x].val
                b == acct[y].val
            IN  /\ BankAccountNumber_eq(a, b) <=> as_str(a) = as_str(b)
                /\ BankAccountNumber_eq(a, b)
                   => BankAccountNumber_hash(a) = BankAccountNumber_hash(b)
                /\ (last.slot = x /\ last.op = "eq" /\ x # y)
                   => last.out = Ret(as_str(a) = as_str(b))

\* C22: two values with the same bank code and different branches were
\* compared
C22_Reached ==
    \E x, y \in Slots :
        /\ Built(x) /\ acct[x].input = in_01_2345
        /\ Built(y) /\ acct[y].input = in_01_9000
        /\ last.slot = x /\ last.op = "eq" /\ last.out = Ret(FALSE)

\* ------------------------------------------------------------------------
\* Properties of callers that run side by side (specification SpecShared)
\* ------------------------------------------------------------------------
\* what a call gives when it is the only call ever made
AloneNew(s) == Bound("new", s, BankAccountNumber_new(s))

AloneIdNew(kind, s) == IdBound("new", kind, s, Id_new(kind, s))

AloneAccessor(op, v) ==
    CASE op = "prefix" -> prefix(v)
      [] op = "bank_code" -> bank_code(v)
      [] op = "branch_code" -> branch_code(v)
      [] op = "account_number" -> account_number(v)
      [] op = "suffix" -> suffix(v)
      [] op = "as_str" -> Ret(as_str(v))

\* every result held is the one the call gives alone, whatever ran between
ResultsAsAlone ==
    /\ \A x \in Slots :
          acct[x].st # "unbound" => acct[x] = AloneNew(acct[x].input)
    /\ \A x, y \in Slots :
          (acct[x].st # "unbound" /\ acct[x].input = acct[y].input)
          => acct[x] = acct[y]
    /\ last.slot \in Slots
       => last.out = AloneAccessor(last.op, AloneNew(acct[last.slot].input).val)
    /\ idv.st # "unbound" => idv = AloneIdNew(idv.kind, idv.input)
    /\ look.fn = "try_from" => look.out = ExpectedLookup(look.arg)
    /\ (look.fn = "from_str" /\ look.arg # <<>>)
       => look.out = ExpectedLookup(NumVal(look.arg))

\* a step leaves every value constructed before it as it was
ValuesNeverChange ==
    /\ \A x \in Slots : acct[x].st # "unbound" => acct'[x] = acct[x]
    /\ idv.st # "unbound" => idv' = idv

id_acc_123456 == <<"a", "c", "c", "_">> \o f123456
id_trans_123456 == <<"t", "r", "a", "n", "s", "_">> \o f123456
id_transfer_ == <<"t", "r", "a", "n", "s", "f", "e", "r", "_">>
id_transfer_1 == id_transfer_ \o <<"1">>

\* C24: no prefix of a kind starts with the prefix of another kind, so a
\* text that one kind's new accepts is rejected by the new of every other
\* kind; AccountId::new rejects "trans_123456" and "123456",
\* TransactionId::new rejects "acc_123456" and every text that starts with
\* "transfer_".
C24_KindsExclusive ==
    /\ \A k1, k2 \in IdKinds :
          k1 # k2 => ~HasPrefix(PREFIX(k1), PREFIX(k2))
    /\ (idv.via = "new" /\ IdHeld)
       => \A k \in IdKinds \ {idv.kind} : Id_new(k, idv.input).tag = "Err"
    /\ (/\ idv.via = "new" /\ idv.kind = "AccountId"
        /\ idv.input \in {id_trans_123456, f123456})
       => idv.st = "Err"
    /\ (/\ idv.via = "new" /\ idv.kind = "TransactionId"
        /\ \/ idv.input = id_acc_123456
           \/ HasPrefix(idv.input, id_transfer_))
       => idv.st = "Err"

\* C24: TransactionId::new("transfer_1") has returned Err
C24_Reached ==
    /\ idv.via = "new" /\ idv.kind = "TransactionId"
    /\ idv.input = id_transfer_1 /\ idv.st = "Err"

\* ------------------------------------------------------------------------
\* Properties of build_url (specification SpecUrl)
\* ------------------------------------------------------------------------
\* the percent-encoded form of each byte of the values
PercentEncoded(c) ==
    CASE c = " " -> <<"%", "2", "0">>
      [] c = "&" -> <<"%", "2", "6">>
      [] c = "=" -> <<"%", "3", "D">>
      [] c = "?" -> <<"%", "3", "F">>
      [] c = "%" -> <<"%", "2", "5">>
      [] c = "C3" -> <<"%", "C", "3">>
      [] c = "A9" -> <<"%", "A", "9">>
      [] OTHER -> <<c>>

RECURSIVE PercentEncodedText(_)
PercentEncodedText(v) ==
    IF v = <<>> THEN <<>>
    ELSE PercentEncoded(Head(v)) \o PercentEncodedText(Tail(v))

\* key=value of the pairs from the i-th on, with "&" between them
RECURSIVE ExpectedQuery(_, _)
ExpectedQuery(params, i) ==
    IF i > Len(params) THEN <<>>
    ELSE params[i][1] \o <<"=">> \o PercentEncodedText(params[i][2])
         \o (IF i < Len(params) THEN <<"&">> ELSE <<>>)
         \o ExpectedQuery(params, i + 1)

CountOf(s, ch) == Cardinality({i \in 1..Len(s) : s[i] = ch})

\* C25: build_url gives base/path when there are no parameters, adding no
\* "?", and otherwise base/path?k1=v1&k2=v2... with the values
\* percent-encoded, in the given order, one "&" between pairs and none at the
\* end; a space or "&" inside a value never adds a parameter.
C25_BuildUrl ==
    url.st = "built" =>
        LET head == url.base \o <<"/">> \o url.path
            n == Len(url.params)
            query == SubSeq(url.out, Len(head) + 2, Len(url.out))
        IN  /\ n = 0 => url.out = head
            /\ n > 0
               => /\ url.out = head \o <<"?">> \o ExpectedQuery(url.params, 1)
                  /\ CountOf(url.out, "?") = 1
                  /\ CountOf(url.out, "&") = n - 1
                  /\ CountOf(url.out, " ") = 0
                  /\ url.out[Len(url.out)] # "&"
                  /\ Len(Split(query, "&")) = n
                  /\ \A i \in 1..n :
                        /\ CountOf(Split(query, "&")[i], "=") = 1
                        /\ StartsWith(Split(query, "&")[i],
                                      url.params[i][1] \o <<"=">>)

\* C25: build_url was called with the values "a&b" and "a b", in this order
C25_Reached ==
    /\ url.st = "built"
    /\ Len(url.params) = 2
    /\ url.params[1][2] = <<"a", "&", "b">>
    /\ url.params[2][2] = <<"a", " ", "b">>

\* ------------------------------------------------------------------------
\* Properties of the derived bank identity (specification Spec)
\* ------------------------------------------------------------------------
\* C26: for every value v new returned Ok, v.prefix() is the registry entry
\* of the bank field of the input and v.prefix().as_str() equals
\* v.bank_code().
C26_IdentityConsistent ==
    \A x \in Slots :
        Built(x) =>
            LET v == acct[x].val
            IN  /\ prefix(v).tag = "Ret"
                /\ bank_code(v).tag = "Ret"
                /\ prefix(v).v = VariantOf(NumVal(BankField(acct[x].input)))
                /\ BankPrefix_as_str(prefix(v).v) = bank_code(v).v

\* C26: prefix() was called on the value of new("1-2345-6789012-000")
C26_Reached ==
    /\ last.slot \in Slots
    /\ Built(last.slot)
    /\ acct[last.slot].input = in_1_2345
    /\ last.op = "prefix"

\* ------------------------------------------------------------------------
\* Properties of the texts the registry accepts (specification SpecReg)
\* ------------------------------------------------------------------------
\* C27: BankPrefix::from_str returns Ok only for texts made of ASCII digits
\* alone; a sign, a letter, a hyphen or any other character anywhere in the
\* text gives Err.
C27_DigitsOnly ==
    (look.fn = "from_str" /\ look.out.tag = "Ok")
    => (look.arg # <<>> /\ AllAsciiDigits(look.arg))

\* C27: from_str("+1") has returned the ANZ entry
C27_Reached ==
    /\ look.fn = "from_str" /\ look.arg = <<"+", "1">>
    /\ look.out.tag = "Ok" /\ look.out.v = "Anz"

\* C28: for every digit text whose number (leading zeros apart) is above
\* 255, BankPrefix::from_str returns Err; it does not resolve the number
\* modulo 256, so "257", "0268" and "344" are not ANZ, ASB and Bank of China.
C28_NoWrapAround ==
    (/\ look.fn = "from_str"
     /\ look.arg # <<>>
     /\ AllAsciiDigits(look.arg)
     /\ NumVal(look.arg) > U8Max)
    => look.out.tag = "Err"

\* C28: from_str("0268") has returned Err, 268 being 12 modulo 256
C28_Reached ==
    /\ look.fn = "from_str" /\ look.arg = <<"0", "2", "6", "8">>
    /\ look.out.tag = "Err"

\* ------------------------------------------------------------------------
\* Properties of the response handling (specification SpecHttp)
\* ------------------------------------------------------------------------
\* the variant each status is mapped to
ExpectedVariant(status) ==
    CASE status = 400 -> "BadRequest"
      [] status = 401 -> "Unauthorized"
      [] status = 403 -> "Forbidden"
      [] status = 404 -> "NotFound"
      [] status = 429 -> "RateLimited"
      [] status = 500 -> "InternalServerError"
      [] OTHER -> "ApiError"

\* handle_error_response has run, directly or from execute_request
ErrorPathTaken == http.st = "done" /\ http.path = "handle_error_response"

\* the result of handle_error_response is Err of the variant of the status
ErrorsMapped ==
    ErrorPathTaken
    => /\ http.out.tag = "Err"
       /\ http.out.v.variant = ExpectedVariant(http.status)
       /\ http.out.v.variant \in {"BadRequest", "ApiError"}
          => http.out.v.status = http.status

\* execute_request hands a response to handle_error_response exactly when
\* its status is not a success
ErrorPathIffNotSuccess ==
    (http.st = "done" /\ http.fn = "execute_request"
     /\ http.send = "responds")
    => (ErrorPathTaken <=> ~(200 <= http.status /\ http.status <= 299))

\* execute_request got a response with a success status
SuccessResponse ==
    /\ http.st = "done" /\ http.fn = "execute_request"
    /\ http.send = "responds"
    /\ 200 <= http.status /\ http.status <= 299

ValueOrJsonError ==
    \/ http.out.tag = "Ok" /\ http.out.v.deserialized = http.body.text
    \/ /\ http.out.tag = "Err"
       /\ http.out.v.variant = "JsonDeserialization"
       /\ http.out.v.source_string.tag = "Some"
       /\ http.out.v.source_string.v = http.body.text

\* C29 as stated: handle_error_response never returns Ok and maps 400, 401,
\* 403, 404, 429 and 500 to their variants and every other status to
\* ApiError with that status; execute_request takes that path exactly on a
\* status that is not a success; on a success status it returns the
\* deserialized value or JsonDeserialization carrying the body.
C29_AsStated ==
    /\ ErrorsMapped
    /\ ErrorPathIffNotSuccess
    /\ SuccessResponse => ValueOrJsonError

\* C29 amended: as stated, except that on a success status whose body
\* cannot be read execute_request returns the Network error.
C29_StatusMapping ==
    /\ ErrorsMapped
    /\ ErrorPathIffNotSuccess
    /\ (SuccessResponse /\ http.read = "ok") => ValueOrJsonError
    /\ (SuccessResponse /\ http.read = "fails")
       => (http.out.tag = "Err" /\ http.out.v.variant = "Network")

\* C29: execute_request got status 200 and could not read the body
C29_Reached ==
    /\ SuccessResponse
    /\ http.status = 200
    /\ http.read = "fails"
    /\ http.out.tag = "Err"

\* ------------------------------------------------------------------------
\* Properties of the client's app-scoped headers (specification SpecClient)
\* ------------------------------------------------------------------------
\* the place of a character in the base64 alphabet, from 0
SextetOf(c) == (CHOOSE i \in 1..64 : Base64Alphabet[i] = c) - 1

\* the bytes a padded base64 text stands for
RECURSIVE Base64Decoded(_)
Base64Decoded(t) ==
    IF Len(t) < 4 THEN <<>>
    ELSE LET s1 == SextetOf(t[1])
             s2 == SextetOf(t[2])
         IN  IF t[3] = "=" THEN <<(s1 * 4) + (s2 \div 16)>>
             ELSE IF t[4] = "="
                  THEN <<(s1 * 4) + (s2 \div 16),
                         ((s2 % 16) * 16) + (SextetOf(t[3]) \div 4)>>
                  ELSE <<(s1 * 4) + (s2 \div 16),
                         ((s2 % 16) * 16) + (SextetOf(t[3]) \div 4),
                         ((SextetOf(t[3]) % 4) * 64) + SextetOf(t[4])>>
                       \o Base64Decoded(SubSeq(t, 5, Len(t)))

BytesOf(text) == [i \in 1..Len(text) |-> ByteValue(text[i])]

\* the result is Ok with Authorization: Basic base64(token ":" secret)
BasicHeaderOf(out, token, secret) ==
    /\ out.tag = "Ok"
    /\ SubSeq(out.v.AUTHORIZATION, 1, 6) = <<"B", "a", "s", "i", "c", " ">>
    /\ Len(out.v.AUTHORIZATION) = 6 + 4 * ((Len(token) + Len(secret) + 3) \div 3)
    /\ Base64Decoded(SubSeq(out.v.AUTHORIZATION, 7, Len(out.v.AUTHORIZATION)))
       = BytesOf(token \o <<":">> \o secret)

\* what a build_app_headers call returned, by the client it was called on
HeadersFollowSecret ==
    hdr.st = "called" =>
        /\ hdr.self.app_secret.tag = "None"
           => (hdr.out.tag = "Err" /\ hdr.out.v.variant = "MissingAppSecret")
        /\ hdr.self.app_secret.tag = "Some"
           => BasicHeaderOf(hdr.out, hdr.self.app_id_token,
                            hdr.self.app_secret.v)

\* new leaves the secret unset; it stays unset until with_app_secret sets it,
\* and a step that sets it changes no other field of the client
SecretOnlyByWithAppSecret ==
    /\ (cli.st = "none" /\ cli'.st = "built")
       => cli'.app_secret.tag = "None"
    /\ cli.st = "built"
       => /\ cli'.st = "built"
          /\ cli'.client = cli.client
          /\ cli'.app_id_token = cli.app_id_token
          /\ cli'.base_url = cli.base_url
          /\ cli.app_secret.tag = "Some" => cli'.app_secret.tag = "Some"
          /\ hdr' # hdr => cli' = cli

\* C30: on a client made by new, build_app_headers returns
\* Err(MissingAppSecret) on every call until with_app_secret(s) is applied,
\* and from then on headers with Authorization = "Basic " followed by
\* base64(app_id_token ":" s); with_app_secret changes app_secret only.
C30_AppHeaders == []HeadersFollowSecret /\ [][SecretOnlyByWithAppSecret]_vars

\* C30: build_app_headers returned headers on a client with token "a:" and
\* secret "a"
C30_Reached ==
    /\ hdr.st = "called"
    /\ hdr.self.app_id_token = <<"a", ":">>
    /\ hdr.self.app_secret.tag = "Some"
    /\ hdr.self.app_secret.v = <<"a">>
    /\ hdr.out.tag = "Ok"

====
